---------------------------- MODULE Spec2Model ----------------------------
(***************************************************************************)
(* Model of src/app.py: the Flask handlers assemble_video (POST /assemble) *)
(* and assemble_upload (POST /assemble-upload).  Each request is a job     *)
(* that owns a directory WORK_DIR/<job_id>, acquires audio, probes its     *)
(* duration, downloads clips, normalizes them, concatenates them with the  *)
(* audio and removes the directory in its finally block.                   *)
(*                                                                         *)
(* External collaborators (requests.get, ffprobe, ffmpeg) are modelled by  *)
(* the outcomes they can produce; each outcome is drawn with \E.           *)
(***************************************************************************)
EXTENDS Integers, Sequences, FiniteSets, TLC

(***************************************************************************)
(* Bounds of the model and constants of the program.                       *)
(***************************************************************************)
\* Longest video_urls list a request carries (above both clip caps).
MaxUrls == 6

\* Longest video_urls list of a request of the two-job specification.
ConcUrls == 1

\* video_urls[:3] in assemble_video.
AssembleMaxClips == 3

\* video_urls[:5] in assemble_upload.
UploadMaxClips == 5

\* res.stderr[-500:] in the final-assembly error response.
DetailTail == 500

\* The duration ceiling the specification document speaks of (60 s in its
\* scenario); src/app.py has no such constant.
MaxAudioSeconds == 60

\* The fetch attempt count the specification document speaks of; src/app.py
\* has no such constant.
FetchAttempts == 3

\* Request threads of the server process.
Jobs == {1, 2}

\* The request served alone in the one-job specification.
Solo == {1}

\* Values str(uuid.uuid4())[:8] can take; two draws may coincide.
Ids == {"id_a", "id_b"}

NoId == "none"

\* Durations ffprobe can print, in seconds.
Durations == {30, 90}

\* Lengths of a tool's stderr text.
StderrLens == {0, 400, 600}

Min(a, b) == IF a <= b THEN a ELSE b

Range(s) == {s[k] : k \in DOMAIN s}

\* The Python slice s[:n].
Take(s, n) == SubSeq(s, 1, Min(n, Len(s)))

(***************************************************************************)
(* Requests.  A field that is absent, None or empty is falsy in Python and *)
(* is modelled as FALSE / "absent".                                        *)
(* video_urls is a sequence of segments: "u" is a URL, "" an empty segment *)
(* and " " a blank one.  For /assemble it is the JSON list; for            *)
(* /assemble-upload it is the comma-separated form field, split at commas  *)
(* (the empty string is the single segment "").                            *)
(***************************************************************************)
UrlList(n) == [k \in 1..n |-> "u"]

AssembleRequests(maxUrls) ==
    [endpoint : {"assemble"},
     script : BOOLEAN,
     audio_url : BOOLEAN,
     audio_base64 : {"absent", "valid", "invalid"},
     audio : {"missing"},
     video_urls : {UrlList(n) : n \in 0..maxUrls}]

UploadRequests(maxUrls) ==
    [endpoint : {"upload"},
     script : {FALSE},
     audio_url : {FALSE},
     audio_base64 : {"absent"},
     audio : {"missing", "noname", "media", "empty"},
     video_urls : {UrlList(n) : n \in 1..maxUrls}
                  \cup {<<"">>, <<" ">>, <<"", "u">>}]

Requests == AssembleRequests(MaxUrls) \cup UploadRequests(MaxUrls)

ConcRequests ==
    {r \in AssembleRequests(ConcUrls) : ~r.script /\ r.audio_base64 = "absent"}
    \cup {r \in UploadRequests(ConcUrls) :
             r.audio \in {"missing", "media"} /\ r.video_urls \in {<<"">>, UrlList(ConcUrls)}}

NoRequest ==
    [endpoint |-> "none", script |-> FALSE, audio_url |-> FALSE,
     audio_base64 |-> "absent", audio |-> "missing", video_urls |-> <<>>]

(***************************************************************************)
(* The file system under WORK_DIR.                                         *)
(***************************************************************************)
ClipIdx == 0..(MaxUrls + 1)

FileNames ==
    {<<"audio.wav", 0>>, <<"audio.mp3", 0>>, <<"concat.txt", 0>>, <<"final.mp4", 0>>}
    \cup {<<"clip", k>> : k \in ClipIdx} \cup {<<"norm", k>> : k \in ClipIdx}

\* A file: its content kind and the job that wrote it.
\*   "absent" no file, "empty" zero bytes, "media" decodable media,
\*   "junk" bytes that are no media (an HTTP error page), "text" concat.txt.
NoFile == [kind |-> "absent", owner |-> 0]

EmptyDir == [n \in FileNames |-> NoFile]

\* os.path.exists(p) and os.path.getsize(p) > 0
NonEmpty(f) == f.kind \notin {"absent", "empty"}

VARIABLES
    dirs,           \* job directories that exist under WORK_DIR
    files,          \* files[id][name]: the file of that name in directory id
    pc,             \* pc[j]: where job j's handler stands
    req,            \* req[j]: the request job j serves
    job_id,         \* job_id[j]
    audio_duration, \* audio_duration[j]
    video_urls,     \* video_urls[j]: the parsed URL list
    video_paths,    \* video_paths[j]: clip indices whose file was written
    i,              \* i[j]: the running loop's index
    time_per_clip,  \* time_per_clip[j]: the fraction <<numerator, denominator>>
    normalized,     \* normalized[j]: positions p whose norm_p.mp4 was accepted
    concat_list,    \* concat_list[j]: the norm_p entries written to concat.txt
    response,       \* response[j]: the response the handler returns
    branch,         \* branch[j]: the audio branch taken
    lastFetch,      \* lastFetch[j]: target, attempts and outcome of the last download
    fetch_failed,   \* fetch_failed[j]: clip indices whose download raised
    targets,        \* targets[j]: the -t value of each normalize run, in order
    calls           \* calls[j]: counts of external calls and file writes

vars ==
    <<dirs, files, pc, req, job_id, audio_duration, video_urls, video_paths, i,
      time_per_clip, normalized, concat_list, response, branch, lastFetch,
      fetch_failed, targets, calls>>

NoResponse == [status |-> 0, kind |-> "none", error |-> "", detail |-> -1]

\* jsonify({"error": e}), status  /  jsonify({"error": e, "detail": d}), status
Json(status, error, detail) ==
    [status |-> status, kind |-> "json", error |-> error, detail |-> detail]

\* send_file(output_path, mimetype="video/mp4", ...)
SendFile == [status |-> 200, kind |-> "video/mp4", error |-> "", detail |-> -1]

NoCalls == [download |-> 0, probe |-> 0, normalize |-> 0, assemble |-> 0, write |-> 0]

NoFetch == [target |-> -2, attempts |-> 0, outcome |-> "none"]

Init ==
    /\ dirs = {}
    /\ files = [d \in Ids |-> EmptyDir]
    /\ pc = [j \in Jobs |-> "idle"]
    /\ req = [j \in Jobs |-> NoRequest]
    /\ job_id = [j \in Jobs |-> NoId]
    /\ audio_duration = [j \in Jobs |-> 0]
    /\ video_urls = [j \in Jobs |-> <<>>]
    /\ video_paths = [j \in Jobs |-> <<>>]
    /\ i = [j \in Jobs |-> 0]
    /\ time_per_clip = [j \in Jobs |-> <<0, 0>>]
    /\ normalized = [j \in Jobs |-> <<>>]
    /\ concat_list = [j \in Jobs |-> <<>>]
    /\ response = [j \in Jobs |-> NoResponse]
    /\ branch = [j \in Jobs |-> "none"]
    /\ lastFetch = [j \in Jobs |-> NoFetch]
    /\ fetch_failed = [j \in Jobs |-> {}]
    /\ targets = [j \in Jobs |-> <<>>]
    /\ calls = [j \in Jobs |-> NoCalls]


(***************************************************************************)
(* Helpers shared by the handlers.                                         *)
(***************************************************************************)
Set(f, j, v) == [f EXCEPT ![j] = v]

\* A return that hands over the response and lets the handler go on.
ReturnAndContinue(j, r) ==
    /\ response' = Set(response, j, r)
    /\ pc' = pc

\* A return statement inside the try block: the response is held while the
\* finally block runs.
Return(j, r) ==
    /\ response' = Set(response, j, r)
    /\ pc' = Set(pc, j, "finally")

\* An exception handler that answers 400.
ExceptionAsClientError == Json(400, "exception", -1)

\* except Exception as e: return jsonify({"error": str(e)}), 500
ExceptionResponse == Json(500, "exception", -1)

\* os.path.join(job_dir, "audio.wav") / os.path.join(job_dir, "audio.mp3")
audio_path(j) ==
    IF req[j].endpoint = "assemble" THEN <<"audio.wav", 0>> ELSE <<"audio.mp3", 0>>

\* The file at a path of job j's directory, as a tool or the handler sees it.
FileAt(j, name) ==
    IF job_id[j] \in dirs THEN files[job_id[j]][name] ELSE NoFile

\* with open(path, "wb") as f: f.write(...)
WriteFile(j, name, kind) ==
    [files EXCEPT ![job_id[j]][name] = [kind |-> kind, owner |-> j]]

\* What a download can do: "ok" a 200 with a media body, "empty" a 200 with
\* an empty body, "http_error" an error status with an error page as body,
\* "raise" an exception (connection error, timeout, bad URL), "transient" an
\* exception where a second attempt would have succeeded.
FetchOutcomes == {"ok", "empty", "http_error", "raise", "transient"}

Raises(o) == o \in {"raise", "transient"}

\* The kind of the bytes r.content holds.
BodyKind(o) ==
    CASE o = "ok" -> "media"
      [] o = "empty" -> "empty"
      [] OTHER -> "junk"

\* A retrying fetch: up to FetchAttempts attempts, success on the second
\* attempt after a transient failure.
GetWithRetry(o) ==
    [attempts |-> IF o = "transient" THEN 2 ELSE IF o = "raise" THEN FetchAttempts ELSE 1,
     outcome |-> IF o = "transient" THEN "ok" ELSE o]

\* r = requests.get(url, timeout=60): one attempt, whatever its outcome.
Get(o) == [attempts |-> 1, outcome |-> o]

\* The cap of the clip loop: video_urls[:3] / video_urls[:5].
MaxClips(j) ==
    IF req[j].endpoint = "assemble" THEN AssembleMaxClips ELSE UploadMaxClips

\* A clip loop over the whole list, without the slice.
CappedNot(j) == video_urls[j]

\* video_urls[:3] / video_urls[:5]
Capped(j) == Take(video_urls[j], MaxClips(j))

(***************************************************************************)
(* A request arrives: job_id, job_dir, os.makedirs(job_dir, exist_ok=True) *)
(***************************************************************************)
Start(j, R) ==
    /\ pc[j] = "idle"
    /\ \E r \in R, id \in Ids :
          /\ req' = Set(req, j, r)
          /\ job_id' = Set(job_id, j, id)
          /\ dirs' = dirs \cup {id}
    /\ pc' = Set(pc, j, "audio")
    /\ UNCHANGED <<files, audio_duration, video_urls, video_paths, i, time_per_clip,
                   normalized, concat_list, response, branch, lastFetch,
                   fetch_failed, targets, calls>>

(***************************************************************************)
(* Step 1: the audio.                                                      *)
(***************************************************************************)
\* A branch order that prefers the inline bytes to the URL.
AudioBranchBase64First(r) ==
    IF r.endpoint = "assemble"
    THEN IF r.audio_base64 # "absent" THEN "base64"
         ELSE IF r.audio_url THEN "url" ELSE "none"
    ELSE IF r.audio = "missing" THEN "no_file"
         ELSE IF r.audio = "noname" THEN "no_name" ELSE "upload"

\* A branch order without the final else: a download is made even when no
\* audio field is given.
AudioBranchAlwaysFetch(r) ==
    IF r.endpoint = "assemble"
    THEN IF r.audio_base64 # "absent" /\ ~r.audio_url THEN "base64" ELSE "url"
    ELSE IF r.audio = "missing" THEN "upload"
         ELSE IF r.audio = "noname" THEN "no_name" ELSE "upload"

\* if audio_url: ... elif audio_base64: ... else: 400   (assemble_video)
\* 'audio' not in request.files / filename == '' / save   (assemble_upload)
AudioBranch(r) ==
    IF r.endpoint = "assemble"
    THEN IF r.audio_url THEN "url"
         ELSE IF r.audio_base64 # "absent" THEN "base64" ELSE "none"
    ELSE IF r.audio = "missing" THEN "no_file"
         ELSE IF r.audio = "noname" THEN "no_name" ELSE "upload"

AudioError(b) ==
    CASE b = "none" -> "No audio provided"
      [] b = "no_file" -> "No audio file provided"
      [] OTHER -> "Empty audio filename"

AcquireAudio(j) ==
    /\ pc[j] = "audio"
    /\ \E o \in FetchOutcomes :
        LET r == req[j]
            b == AudioBranch(r)
            g == Get(o)
            fetched == b = "url"
            raised ==
                \/ fetched /\ Raises(g.outcome)
                \/ b = "base64" /\ r.audio_base64 = "invalid"
                \/ job_id[j] \notin dirs
            kind ==
                CASE b = "url" -> BodyKind(g.outcome)
                  [] b = "base64" -> "media"
                  [] OTHER -> r.audio
        IN  /\ branch' = Set(branch, j, b)
            /\ lastFetch' =
                  IF fetched
                  THEN Set(lastFetch, j,
                           [target |-> -1, attempts |-> g.attempts, outcome |-> g.outcome])
                  ELSE lastFetch
            /\ IF b \in {"none", "no_file", "no_name"}
               THEN /\ Return(j, Json(400, AudioError(b), -1))
                    /\ UNCHANGED <<files, calls>>
               ELSE IF raised
               THEN /\ Return(j, ExceptionResponse)
                    /\ calls' = IF fetched
                                THEN [calls EXCEPT ![j].download = @ + g.attempts]
                                ELSE calls
                    /\ UNCHANGED files
               ELSE /\ files' = WriteFile(j, audio_path(j), kind)
                    /\ calls' = [calls EXCEPT
                                   ![j].download = @ + (IF fetched THEN g.attempts ELSE 0),
                                   ![j].write = @ + 1]
                    /\ pc' = Set(pc, j, "probe")
                    /\ UNCHANGED response
    /\ UNCHANGED <<dirs, req, job_id, audio_duration, video_urls, video_paths, i,
                   time_per_clip, normalized, concat_list, fetch_failed, targets>>

(***************************************************************************)
(* Step 2: ffprobe prints the duration of the audio.                       *)
(***************************************************************************)
\* What ffprobe can leave in stdout and stderr for a file of a kind: a
\* number, the text N/A (a container with no duration), or nothing.
ProbeResults(kind) ==
    {[text |-> "empty", value |-> 0, stderr |-> s] : s \in StderrLens}
    \cup (IF kind = "media"
          THEN {[text |-> "number", value |-> d, stderr |-> 0] : d \in Durations}
               \cup {[text |-> "na", value |-> 0, stderr |-> 0]}
          ELSE {})

\* A parse that takes unreadable text for a duration of 0.
FloatDefaultsToZero(result) == FALSE

\* float(result.stdout.strip()) raises ValueError for text that is no number
FloatRaises(result) == result.text = "na"

\* "detail": result.stderr  -- the whole text
StderrWhole(len) == len

Probe(j) ==
    /\ pc[j] = "probe"
    /\ \E result \in ProbeResults(FileAt(j, audio_path(j)).kind) :
          IF result.text = "empty"
          THEN \* if not result.stdout.strip(): 400 with detail result.stderr
               /\ Return(j, Json(400, "Failed to determine audio duration",
                              StderrWhole(result.stderr)))
               /\ UNCHANGED audio_duration
          ELSE IF FloatRaises(result)
          THEN \* float("N/A") raises ValueError
               /\ Return(j, ExceptionResponse)
               /\ UNCHANGED audio_duration
          ELSE /\ audio_duration' = Set(audio_duration, j, result.value)
               /\ pc' = Set(pc, j, "urls")
               /\ UNCHANGED response
    /\ calls' = [calls EXCEPT ![j].probe = @ + 1]
    /\ UNCHANGED <<dirs, files, req, job_id, video_urls, video_paths, i, time_per_clip,
                   normalized, concat_list, branch, lastFetch, fetch_failed, targets>>

(***************************************************************************)
(* Step 3: the clip URLs and the download loop.                            *)
(***************************************************************************)
\* url.strip() is non-empty
IsUrl(seg) == seg \notin {"", " "}

\* [url.strip() for url in video_urls_str.split(',') if url.strip()]
SplitUrls(segs) == SelectSeq(segs, IsUrl)

\* not video_urls_str: the form field is missing or the empty string
EmptyField(segs) == segs = <<"">>

ParseUrls(j) ==
    /\ pc[j] = "urls"
    /\ IF req[j].endpoint = "assemble"
       THEN \* video_urls = data.get("video_urls", [])
            /\ video_urls' = Set(video_urls, j, req[j].video_urls)
            /\ pc' = Set(pc, j, "download")
            /\ UNCHANGED response
       ELSE IF EmptyField(req[j].video_urls)
       THEN /\ Return(j, Json(400, "No video URLs provided", -1))
            /\ UNCHANGED video_urls
       ELSE IF SplitUrls(req[j].video_urls) = <<>>
       THEN /\ Return(j, Json(400, "No valid video URLs provided", -1))
            /\ video_urls' = Set(video_urls, j, <<>>)
       ELSE /\ video_urls' = Set(video_urls, j, SplitUrls(req[j].video_urls))
            /\ pc' = Set(pc, j, "download")
            /\ UNCHANGED response
    /\ i' = Set(i, j, 0)
    /\ UNCHANGED <<dirs, files, req, job_id, audio_duration, video_paths, time_per_clip,
                   normalized, concat_list, branch, lastFetch, fetch_failed, targets,
                   calls>>

\* Whether the body of the clip loop raises for a download outcome:
\* assemble_upload calls r.raise_for_status(), assemble_video does not.
ClipRaises(j, o) ==
    \/ Raises(o)
    \/ req[j].endpoint = "upload" /\ o = "http_error"
    \/ job_id[j] \notin dirs

\* One pass of  for i, url in enumerate(video_urls[:N])
Download(j) ==
    /\ pc[j] = "download"
    /\ i[j] < Len(Capped(j))
    /\ \E o \in FetchOutcomes :
        LET g == Get(o)
            k == i[j]
        IN  /\ lastFetch' = Set(lastFetch, j,
                                [target |-> k, attempts |-> g.attempts, outcome |-> g.outcome])
            /\ IF ClipRaises(j, g.outcome)
               THEN /\ fetch_failed' = Set(fetch_failed, j, fetch_failed[j] \cup {k})
                    /\ calls' = [calls EXCEPT ![j].download = @ + g.attempts]
                    /\ UNCHANGED <<files, video_paths>>
                    /\ IF req[j].endpoint = "upload"
                       THEN \* except Exception: continue
                            /\ i' = Set(i, j, k + 1)
                            /\ UNCHANGED <<pc, response>>
                       ELSE \* no handler in the loop: the outer except answers
                            /\ Return(j, ExceptionResponse)
                            /\ UNCHANGED i
               ELSE /\ files' = WriteFile(j, <<"clip", k>>, BodyKind(g.outcome))
                    /\ video_paths' = Set(video_paths, j, Append(video_paths[j], k))
                    /\ calls' = [calls EXCEPT ![j].download = @ + g.attempts,
                                              ![j].write = @ + 1]
                    /\ i' = Set(i, j, k + 1)
                    /\ UNCHANGED <<pc, response, fetch_failed>>
    /\ UNCHANGED <<dirs, req, job_id, audio_duration, video_urls, time_per_clip,
                   normalized, concat_list, branch, targets>>

(***************************************************************************)
(* Step 4: the time per clip.                                              *)
(***************************************************************************)
\* A division by the planned clip count, whatever was downloaded.
TimePerClipPlanned(j) == <<audio_duration[j], Len(Capped(j))>>

\* A division of the duration capped at the ceiling.
TimePerClipCapped(j) == <<Min(audio_duration[j], MaxAudioSeconds), Len(video_paths[j])>>

\* A division by one more than the downloaded clips.
TimePerClipOffByOne(j) == <<audio_duration[j], Len(video_paths[j]) + 1>>

\* time_per_clip = audio_duration / len(video_paths), kept as a fraction
TimePerClip(j) == <<audio_duration[j], Len(video_paths[j])>>

\* A plan step without the guard on the downloaded clips.
NoClipsUnchecked(j) == FALSE

\* if not video_paths:
NoClips(j) == video_paths[j] = <<>>

Plan(j) ==
    /\ pc[j] = "download"
    /\ i[j] = Len(Capped(j))
    /\ IF NoClips(j)
       THEN /\ Return(j, Json(400,
                          IF req[j].endpoint = "assemble"
                          THEN "No video clips provided"
                          ELSE "Failed to download any video clips", -1))
            /\ UNCHANGED <<time_per_clip, i>>
       ELSE /\ time_per_clip' = Set(time_per_clip, j, TimePerClip(j))
            /\ pc' = Set(pc, j, "normalize")
            /\ i' = Set(i, j, 0)
            /\ UNCHANGED response
    /\ UNCHANGED <<dirs, files, req, job_id, audio_duration, video_urls, video_paths,
                   normalized, concat_list, branch, lastFetch, fetch_failed, targets,
                   calls>>

(***************************************************************************)
(* Step 5: ffmpeg normalizes each downloaded clip.                         *)
(***************************************************************************)
\* Whether the ffmpeg run writes a non-empty output: only from a media input
\* in an existing directory, and even then it may fail.
NormalizeOutcomes(j, k) ==
    IF FileAt(j, <<"clip", k>>).kind = "media" THEN {TRUE, FALSE} ELSE {FALSE}

\* A normalize run that deletes the raw clip once it has been read.
AfterNormalizeDeleteRaw(j, p, ok) ==
    LET written == IF ok THEN WriteFile(j, <<"norm", p>>, "media") ELSE files
    IN  IF job_id[j] \in dirs
        THEN [written EXCEPT ![job_id[j]][<<"clip", video_paths[j][p + 1]>>] = NoFile]
        ELSE written

\* The files after subprocess.run(cmd) of the normalize loop: norm_p.mp4 is
\* written when the run succeeds; nothing is removed.
AfterNormalize(j, p, ok) ==
    IF ok THEN WriteFile(j, <<"norm", p>>, "media") ELSE files

\* One pass of  for i, vpath in enumerate(video_paths)
Normalize(j) ==
    /\ pc[j] = "normalize"
    /\ i[j] < Len(video_paths[j])
    /\ \E ok \in NormalizeOutcomes(j, video_paths[j][i[j] + 1]) :
        LET p == i[j]
            after == AfterNormalize(j, p, ok)
            npath == IF job_id[j] \in dirs THEN after[job_id[j]][<<"norm", p>>] ELSE NoFile
        IN  /\ files' = after
            /\ normalized' =
                  IF NonEmpty(npath)
                  THEN Set(normalized, j, Append(normalized[j], p))
                  ELSE normalized
            /\ calls' = [calls EXCEPT ![j].normalize = @ + 1,
                                      ![j].write = @ + (IF ok THEN 1 ELSE 0)]
            /\ targets' = Set(targets, j, Append(targets[j], time_per_clip[j]))
            /\ i' = Set(i, j, p + 1)
    /\ UNCHANGED <<dirs, pc, req, job_id, audio_duration, video_urls, video_paths,
                   time_per_clip, concat_list, response, branch, lastFetch, fetch_failed>>

(***************************************************************************)
(* Steps 6 and 7: concat.txt, the final ffmpeg run and the response.       *)
(***************************************************************************)
Concat(j) ==
    /\ pc[j] = "normalize"
    /\ i[j] = Len(video_paths[j])
    /\ IF normalized[j] = <<>>
       THEN /\ Return(j, Json(500, "All video normalizations failed", -1))
            /\ UNCHANGED <<files, concat_list, calls>>
       ELSE IF job_id[j] \notin dirs
       THEN \* open(concat_path, "w") raises FileNotFoundError
            /\ Return(j, ExceptionResponse)
            /\ UNCHANGED <<files, concat_list, calls>>
       ELSE /\ files' = WriteFile(j, <<"concat.txt", 0>>, "text")
            /\ concat_list' = Set(concat_list, j, normalized[j])
            /\ calls' = [calls EXCEPT ![j].write = @ + 1]
            /\ pc' = Set(pc, j, "assemble")
            /\ UNCHANGED response
    /\ UNCHANGED <<dirs, req, job_id, audio_duration, video_urls, video_paths, i,
                   time_per_clip, normalized, branch, lastFetch, fetch_failed, targets>>

\* Whether the final ffmpeg run can write final.mp4: every listed clip and
\* the audio must be there; even then it may fail.
AssembleOutcomes(j) ==
    IF /\ FileAt(j, <<"concat.txt", 0>>).kind = "text"
       /\ \A p \in Range(concat_list[j]) : FileAt(j, <<"norm", p>>).kind = "media"
       /\ FileAt(j, audio_path(j)).kind = "media"
    THEN {TRUE, FALSE}
    ELSE {FALSE}

\* res.stderr[-500:]
StderrTail(len) == Min(len, DetailTail)

\* A final run that deletes what it consumed: the normalized clips, the
\* list and the audio.
AfterAssembleDeleteInputs(j, ok) ==
    IF ok
    THEN [files EXCEPT ![job_id[j]] =
            [n \in FileNames |->
                IF n = <<"final.mp4", 0>> THEN [kind |-> "media", owner |-> j]
                ELSE IF n[1] \in {"norm", "concat.txt", "audio.wav", "audio.mp3"} THEN NoFile
                ELSE @[n]]]
    ELSE files

\* The files after subprocess.run(cmd) of the final assembly: final.mp4 is
\* written when the run succeeds; nothing is removed.
AfterAssemble(j, ok) ==
    IF ok THEN WriteFile(j, <<"final.mp4", 0>>, "media") ELSE files

Assemble(j) ==
    /\ pc[j] = "assemble"
    /\ \E ok \in AssembleOutcomes(j), stderr \in StderrLens :
        LET after == AfterAssemble(j, ok)
            output == IF job_id[j] \in dirs THEN after[job_id[j]][<<"final.mp4", 0>>] ELSE NoFile
        IN  /\ files' = after
            /\ calls' = [calls EXCEPT ![j].assemble = @ + 1,
                                      ![j].write = @ + (IF ok THEN 1 ELSE 0)]
            /\ IF NonEmpty(output)
               THEN Return(j, SendFile)
               ELSE Return(j, Json(500, "Final video not created", StderrTail(stderr)))
    /\ UNCHANGED <<dirs, req, job_id, audio_duration, video_urls, video_paths, i,
                   time_per_clip, normalized, concat_list, branch, lastFetch,
                   fetch_failed, targets>>

(***************************************************************************)
(* finally: shutil.rmtree(job_dir, ignore_errors=True); the handler ends.  *)
(***************************************************************************)
\* A teardown that leaves the directory of a failed job in place.
RmtreeOnSuccessOnly(j) ==
    IF response[j].status = 200 THEN dirs \ {job_id[j]} ELSE dirs

\* The directories left by shutil.rmtree(job_dir, ignore_errors=True)
Rmtree(j) == dirs \ {job_id[j]}

Cleanup(j) ==
    /\ pc[j] = "finally"
    /\ dirs' = Rmtree(j)
    /\ files' = [files EXCEPT ![job_id[j]] =
                    IF job_id[j] \in dirs' THEN @ ELSE EmptyDir]
    /\ pc' = Set(pc, j, "returned")
    /\ UNCHANGED <<req, job_id, audio_duration, video_urls, video_paths, i,
                   time_per_clip, normalized, concat_list, response, branch,
                   lastFetch, fetch_failed, targets, calls>>

(***************************************************************************)
(* The specifications.                                                     *)
(***************************************************************************)
Step(j, R) ==
    \/ Start(j, R)
    \/ AcquireAudio(j)
    \/ Probe(j)
    \/ ParseUrls(j)
    \/ Download(j)
    \/ Plan(j)
    \/ Normalize(j)
    \/ Concat(j)
    \/ Assemble(j)
    \/ Cleanup(j)

\* One request served alone, over the whole input space.
Next == \E j \in Solo : Step(j, Requests)

Spec == Init /\ [][Next]_vars

\* Two requests served by concurrent threads, over short requests.
NextConc == \E j \in Jobs : Step(j, ConcRequests)

SpecConc == Init /\ [][NextConc]_vars

(***************************************************************************)
(* Notions the properties share.                                           *)
(***************************************************************************)
InFlight(j) == pc[j] \notin {"idle", "returned"}

Returned(j) == pc[j] = "returned"

\* Fractions <<numerator, denominator>>.
FracEq(x, y) == x[1] * y[2] = y[1] * x[2]

FracAdd(x, y) == <<x[1] * y[2] + y[1] * x[2], x[2] * y[2]>>

RECURSIVE FracSum(_)
FracSum(s) == IF s = <<>> THEN <<0, 1>> ELSE FracAdd(Head(s), FracSum(Tail(s)))

\* C: the clip count after the cap.
ClipCount(j) == Len(Capped(j))

\* The clips whose normalize run was made and whose output was not accepted.
NormFailed(j) ==
    {video_paths[j][p + 1] : p \in {q \in 0..(Len(targets[j]) - 1) : q \notin Range(normalized[j])}}

\* The clips that failed, at the download or at the normalize run.
FailedClips(j) == fetch_failed[j] \cup NormFailed(j)

\* The clips of the request, after the cap, in input order.
InputClips(j) == [k \in 1..ClipCount(j) |-> k - 1]

NotFailed(j, k) == k \notin FailedClips(j)

\* The clips behind the entries of concat.txt, in the order written.
ClipsHanded(j) == [p \in 1..Len(concat_list[j]) |-> video_paths[j][concat_list[j][p] + 1]]

(***************************************************************************)
(* C1.  On every exit path of a handler (success, early error return, or   *)
(* exception) the job's directory and everything in it is gone when the    *)
(* handler has returned; no response leaves without the teardown.          *)
(***************************************************************************)
C1_WorkspaceRemovedOnReturn ==
    \A j \in Jobs :
        Returned(j) =>
            /\ job_id[j] \notin dirs
            /\ files[job_id[j]] = EmptyDir
            /\ response[j] # NoResponse

\* A job that ended in the exception handler and one that wrote files.
C1_Witness ==
    \E j \in Jobs :
        /\ Returned(j)
        /\ response[j] = ExceptionResponse
        /\ calls[j].write > 0

(***************************************************************************)
(* C2.  No two jobs in flight use the same directory, and every file in    *)
(* the directory of a job in flight was written by that job.  (The claim   *)
(* as stated; str(uuid.uuid4())[:8] with exist_ok=True does not ensure it.)*)
(***************************************************************************)
C2_DistinctWorkspaces ==
    \A j \in Jobs :
        InFlight(j) =>
            /\ \A j2 \in Jobs \ {j} : InFlight(j2) => job_id[j2] # job_id[j]
            /\ \A n \in FileNames : files[job_id[j]][n].owner \in {0, j}

(***************************************************************************)
(* C3.  As stated: the audio branch follows the precedence script, then    *)
(* audio URL, then base64, and none of the three gives the no-audio error. *)
(***************************************************************************)
C3_ClaimedBranch(r) ==
    IF r.script THEN "script"
    ELSE IF r.audio_url THEN "url"
    ELSE IF r.audio_base64 # "absent" THEN "base64" ELSE "none"

C3_ScriptPrecedence ==
    \A j \in Jobs :
        (req[j].endpoint = "assemble" /\ pc[j] \notin {"idle", "audio"}) =>
            branch[j] = C3_ClaimedBranch(req[j])

(***************************************************************************)
(* C3, amended.  /assemble takes exactly one branch: the audio URL if      *)
(* present, otherwise the base64 bytes if present; the script field plays  *)
(* no part; with neither URL nor base64 the job answers 400 "No audio      *)
(* provided" (script or not) without any download or write.                *)
(***************************************************************************)
C3_UrlThenBase64 ==
    \A j \in Jobs :
        (req[j].endpoint = "assemble" /\ pc[j] \notin {"idle", "audio"}) =>
            /\ req[j].audio_url =>
                  /\ branch[j] = "url"
                  /\ calls[j].download >= 1
            /\ (~req[j].audio_url /\ req[j].audio_base64 # "absent") =>
                  /\ branch[j] = "base64"
                  /\ pc[j] = "probe" => calls[j].download = 0
            /\ (~req[j].audio_url /\ req[j].audio_base64 = "absent") =>
                  /\ branch[j] = "none"
                  /\ response[j] = Json(400, "No audio provided", -1)
                  /\ calls[j] = NoCalls

\* Script, URL and base64 all present: the URL was downloaded.
C3_Witness ==
    \E j \in Jobs :
        /\ req[j].script /\ req[j].audio_url /\ req[j].audio_base64 = "valid"
        /\ pc[j] = "probe"
        /\ branch[j] = "url"
        /\ FileAt(j, <<"audio.wav", 0>>).kind = "media"

(***************************************************************************)
(* C4.  A request with no audio source (/assemble without script, URL and  *)
(* base64; /assemble-upload without the audio file part) ends with a 400   *)
(* input error and makes no download, probe, normalize, assembly or file   *)
(* write: it only creates and removes its directory.                       *)
(***************************************************************************)
NoAudioSource(r) ==
    \/ r.endpoint = "assemble" /\ ~r.script /\ ~r.audio_url /\ r.audio_base64 = "absent"
    \/ r.endpoint = "upload" /\ r.audio = "missing"

C4_NoAudioNoWork ==
    \A j \in Jobs :
        NoAudioSource(req[j]) =>
            /\ calls[j] = NoCalls
            /\ pc[j] \in {"audio", "finally", "returned"}
            /\ pc[j] \in {"finally", "returned"} =>
                  /\ response[j].status = 400
                  /\ response[j].error \in {"No audio provided", "No audio file provided"}

C4_Witness ==
    \E j \in Jobs :
        /\ NoAudioSource(req[j])
        /\ req[j].video_urls # <<>>
        /\ Returned(j)
        /\ response[j].status = 400

(***************************************************************************)
(* C5.  When every clip (after the cap) was downloaded and normalized,     *)
(* each normalize run got the target D/C, the targets sum to D, and the    *)
(* clips written to concat.txt are the input clips 0..C-1 in input order.  *)
(***************************************************************************)
AllClipsOk(j) ==
    /\ ClipCount(j) >= 1
    /\ concat_list[j] # <<>>
    /\ Len(video_paths[j]) = ClipCount(j)
    /\ Len(normalized[j]) = ClipCount(j)

C5_EvenSplitInOrder ==
    \A j \in Jobs :
        AllClipsOk(j) =>
            /\ \A p \in DOMAIN targets[j] :
                  FracEq(targets[j][p], <<audio_duration[j], ClipCount(j)>>)
            /\ Len(targets[j]) = ClipCount(j)
            /\ FracEq(FracSum(targets[j]), <<audio_duration[j], 1>>)
            /\ ClipsHanded(j) = InputClips(j)

\* 30 s over 3 clips on /assemble (10 s each) and 5 clips on /assemble-upload.
C5_Witness ==
    \E j \in Jobs :
        /\ AllClipsOk(j)
        /\ Returned(j)
        /\ response[j] = SendFile
        /\ audio_duration[j] = 30
        /\ \/ ClipCount(j) = AssembleMaxClips /\ FracEq(time_per_clip[j], <<10, 1>>)
           \/ ClipCount(j) = UploadMaxClips /\ Len(video_urls[j]) > UploadMaxClips

(***************************************************************************)
(* C6.  As stated: when some but not all clips fail (download or           *)
(* normalize), the job is not aborted: the final assembly is run on        *)
(* exactly the surviving clips, in input order.                            *)
(***************************************************************************)
Survivors(j) == SelectSeq(InputClips(j), LAMBDA k : NotFailed(j, k))

C6_PartialFailureSkips ==
    \A j \in Jobs :
        (/\ Returned(j)
         /\ FailedClips(j) # {}
         /\ Cardinality(FailedClips(j)) < ClipCount(j)) =>
            /\ calls[j].assemble = 1
            /\ ClipsHanded(j) = Survivors(j)

(***************************************************************************)
(* C7.  As stated: every normalize run gets the target D/C with C the      *)
(* capped clip count, whatever failed.                                     *)
(***************************************************************************)
C7_DivisorIsPlannedCount ==
    \A j \in Jobs :
        \A p \in DOMAIN targets[j] :
            FracEq(targets[j][p], <<audio_duration[j], ClipCount(j)>>)

(***************************************************************************)
(* C7, amended.  Every normalize run gets the target D/F, F being the      *)
(* number of clips whose download was accepted, fixed before the first     *)
(* normalize run: a failed normalization never changes the divisor, a      *)
(* failed download on /assemble-upload lowers it from C to F.              *)
(***************************************************************************)
C7_DivisorIsFetchedCount ==
    \A j \in Jobs :
        /\ \A p \in DOMAIN targets[j] :
              FracEq(targets[j][p], <<audio_duration[j], Len(video_paths[j])>>)
        /\ pc[j] \in {"normalize", "assemble"} =>
              /\ time_per_clip[j][2] = Len(video_paths[j])
              /\ Len(video_paths[j]) = ClipCount(j) - Cardinality(fetch_failed[j])

\* 3 planned, clip 1 not downloaded, one of the other two not normalized.
C7_Witness ==
    \E j \in Jobs :
        /\ req[j].endpoint = "upload"
        /\ ClipCount(j) = 3
        /\ fetch_failed[j] = {1}
        /\ Len(targets[j]) = 2
        /\ Len(normalized[j]) = 1
        /\ response[j] = SendFile

(***************************************************************************)
(* C8.  As stated: when every clip fails, the job ends with the            *)
(* all-clips-failed error, the final assembly is never run and no video    *)
(* is returned.                                                            *)
(***************************************************************************)
AllClipsFailedErrors ==
    {"Failed to download any video clips", "All video normalizations failed"}

C8_AllClipsFailed ==
    \A j \in Jobs :
        (/\ Returned(j)
         /\ ClipCount(j) >= 1
         /\ Cardinality(FailedClips(j)) = ClipCount(j)) =>
            /\ response[j].error \in AllClipsFailedErrors
            /\ response[j].status # 200
            /\ calls[j].assemble = 0

(***************************************************************************)
(* C9.  As stated: a download is attempted at most FetchAttempts times,    *)
(* exactly that often when every attempt fails, and a failure that a       *)
(* second attempt would have cured ends in success.                        *)
(***************************************************************************)
FetchSucceeded(j) ==
    IF lastFetch[j].target = -1
    THEN response[j] # ExceptionResponse
    ELSE lastFetch[j].target \in Range(video_paths[j])

C9_FetchRetries ==
    \A j \in Jobs :
        lastFetch[j] # NoFetch =>
            /\ lastFetch[j].attempts <= FetchAttempts
            /\ lastFetch[j].outcome = "raise" => lastFetch[j].attempts = FetchAttempts
            /\ lastFetch[j].outcome = "transient" => FetchSucceeded(j)

(***************************************************************************)
(* C9, amended.  Every download (audio and clip) is attempted exactly      *)
(* once; a download whose one attempt raises is not tried again: on        *)
(* /assemble-upload the clip is skipped, on /assemble the job ends with    *)
(* the 500 exception response.                                             *)
(***************************************************************************)
C9_FetchOnceNoRetry ==
    \A j \in Jobs :
        /\ calls[j].download =
              (IF branch[j] = "url" THEN 1 ELSE 0)
              + Cardinality(fetch_failed[j]) + Len(video_paths[j])
        /\ lastFetch[j] # NoFetch =>
              /\ lastFetch[j].attempts = 1
              /\ Raises(lastFetch[j].outcome) =>
                    /\ ~FetchSucceeded(j)
                    /\ req[j].endpoint = "assemble" => response[j] = ExceptionResponse
                    /\ req[j].endpoint = "upload" =>
                          lastFetch[j].target \in fetch_failed[j]

\* A clip of /assemble-upload whose download failed transiently was skipped.
C9_Witness ==
    \E j \in Jobs :
        /\ req[j].endpoint = "upload"
        /\ pc[j] = "download"
        /\ lastFetch[j].outcome = "transient"
        /\ lastFetch[j].target \in fetch_failed[j]
        /\ i[j] = lastFetch[j].target + 1

(***************************************************************************)
(* C10.  As stated: the duration divided among the clips is the probed     *)
(* duration capped at the ceiling.                                         *)
(***************************************************************************)
C10_CeilingApplied ==
    \A j \in Jobs :
        time_per_clip[j] # <<0, 0>> =>
            time_per_clip[j][1] = Min(audio_duration[j], MaxAudioSeconds)

(***************************************************************************)
(* C10, amended.  The duration divided among the clips is always the       *)
(* probed duration unchanged, also when it exceeds the ceiling: nothing is *)
(* trimmed (probed 90 s gives 90 s).                                       *)
(***************************************************************************)
C10_ProbedDurationUsed ==
    \A j \in Jobs :
        /\ time_per_clip[j] # <<0, 0>> => time_per_clip[j][1] = audio_duration[j]
        /\ \A p \in DOMAIN targets[j] : targets[j][p][1] = audio_duration[j]
        /\ audio_duration[j] \in Durations \cup {0}

C10_Witness ==
    \E j \in Jobs :
        /\ audio_duration[j] > MaxAudioSeconds
        /\ Len(targets[j]) >= 1
        /\ targets[j][1][1] = 90

(***************************************************************************)
(* C11.  As stated: of N clip URLs only the first min(N, max) are ever     *)
(* fetched or normalized, and the divisor of the time per clip is          *)
(* min(N, max).                                                            *)
(***************************************************************************)
\* min(N, max) for job j: max is 3 on /assemble and 5 on /assemble-upload.
C11_Cap(j) == Min(Len(video_urls[j]), MaxClips(j))

\* The clips job j tried to download.
C11_Attempted(j) == Range(video_paths[j]) \cup fetch_failed[j]

C11_OnlyFirstMax(j) ==
    /\ \A k \in C11_Attempted(j) : k < C11_Cap(j)
    /\ lastFetch[j].target < C11_Cap(j)
    /\ calls[j].normalize <= C11_Cap(j)
    /\ Len(targets[j]) <= C11_Cap(j)
    /\ InFlight(j) =>
          \A k \in ClipIdx :
              k >= C11_Cap(j) =>
                  /\ files[job_id[j]][<<"clip", k>>].owner # j
                  /\ files[job_id[j]][<<"norm", k>>].owner # j
    \* in input order: the k-th accepted clip comes before the (k+1)-th
    /\ \A a, b \in DOMAIN video_paths[j] : a < b => video_paths[j][a] < video_paths[j][b]
    /\ pc[j] \in {"normalize", "assemble"} => C11_Attempted(j) = 0..(C11_Cap(j) - 1)

C11_DivisorIsCap ==
    \A j \in Jobs :
        /\ C11_OnlyFirstMax(j)
        /\ time_per_clip[j] # <<0, 0>> => time_per_clip[j][2] = C11_Cap(j)

(***************************************************************************)
(* C11, amended.  Of N clip URLs only the first min(N, max) are ever       *)
(* fetched or normalized, in input order, and URLs beyond the cap are      *)
(* never fetched; the divisor of the time per clip is the number of those  *)
(* capped clips whose download was accepted: at most min(N, max), and      *)
(* equal to it exactly when no download failed.                            *)
(***************************************************************************)
C11_CapApplied ==
    \A j \in Jobs :
        /\ C11_OnlyFirstMax(j)
        /\ time_per_clip[j] # <<0, 0>> =>
              /\ time_per_clip[j][2] = C11_Cap(j) - Cardinality(fetch_failed[j])
              /\ time_per_clip[j][2] <= C11_Cap(j)
              /\ fetch_failed[j] = {} <=> time_per_clip[j][2] = C11_Cap(j)

\* More URLs than the cap on each endpoint, every capped clip normalized.
C11_Witness ==
    \E j \in Jobs :
        /\ Len(video_urls[j]) > MaxClips(j)
        /\ req[j].endpoint = "assemble"
        /\ calls[j].normalize = AssembleMaxClips
        /\ time_per_clip[j][2] = AssembleMaxClips
        /\ response[j] = SendFile

(***************************************************************************)
(* C12.  As stated: a job of /assemble and a job of /assemble-upload that  *)
(* have the same audio duration, the same ordered clip URL list and the    *)
(* same fetch and normalize outcome for every clip apply the same cap,     *)
(* skip the same clips, compute the same time per clip and end in the same *)
(* outcome (the video from the same clip sequence, or the same class of    *)
(* error).  The two jobs run in directories of their own.                  *)
(***************************************************************************)
\* Past the try block: the response is decided.
C12_Decided(j) == pc[j] \in {"finally", "returned"}

\* The HTTP status class of a response: 2 for 2xx, 4 for 4xx, 5 for 5xx.
C12_Class(r) == r.status \div 100

C12_SameInputs(a, u) ==
    /\ req[a].endpoint = "assemble" /\ req[u].endpoint = "upload"
    /\ job_id[a] # job_id[u]
    /\ C12_Decided(a) /\ C12_Decided(u)
    /\ audio_duration[a] \in Durations
    /\ audio_duration[a] = audio_duration[u]
    /\ video_urls[a] = video_urls[u]
    /\ video_urls[a] # <<>>
    /\ lastFetch[a].target = lastFetch[u].target
    /\ lastFetch[a].outcome = lastFetch[u].outcome
    /\ fetch_failed[a] = fetch_failed[u]
    /\ NormFailed(a) = NormFailed(u)

C12_SameDownstream ==
    \A a, u \in Jobs :
        C12_SameInputs(a, u) =>
            /\ Len(video_paths[a]) = Len(video_paths[u])
            /\ FracEq(time_per_clip[a], time_per_clip[u])
            /\ ClipsHanded(a) = ClipsHanded(u)
            /\ response[a].kind = response[u].kind
            /\ C12_Class(response[a]) = C12_Class(response[u])

(***************************************************************************)
(* C13.  The causes of a failed job, read from the state of a job whose    *)
(* response is decided.                                                    *)
(***************************************************************************)
C13_Decided(j) == pc[j] \in {"finally", "returned"}

\* No audio source in the request.
C13_AudioMissing(j) == branch[j] \in {"none", "no_file", "no_name"}

\* Inline audio that is no base64 text.
C13_AudioInvalid(j) == branch[j] = "base64" /\ req[j].audio_base64 = "invalid"

\* The audio download raised.
C13_AudioFetchFailed(j) ==
    /\ branch[j] = "url"
    /\ calls[j].probe = 0
    /\ lastFetch[j].target = -1
    /\ Raises(lastFetch[j].outcome)

\* ffprobe ran and gave no duration.
C13_ProbeFailed(j) == calls[j].probe = 1 /\ audio_duration[j] = 0

\* The duration is known and the request names no clip.
C13_ClipsMissing(j) ==
    /\ audio_duration[j] \in Durations
    /\ IF req[j].endpoint = "assemble" THEN req[j].video_urls = <<>>
       ELSE SplitUrls(req[j].video_urls) = <<>>

\* Every capped clip was tried and every download failed.
C13_AllDownloadsFailed(j) ==
    /\ C11_Cap(j) > 0
    /\ Cardinality(fetch_failed[j]) = C11_Cap(j)

\* A clip download failed and ended the job.
C13_DownloadAborted(j) == req[j].endpoint = "assemble" /\ fetch_failed[j] # {}

\* Every downloaded clip was run through the normalize step and none of
\* the outputs was accepted.
C13_AllNormalizationsFailed(j) ==
    /\ video_paths[j] # <<>>
    /\ Len(targets[j]) = Len(video_paths[j])
    /\ normalized[j] = <<>>

\* The final ffmpeg run was made and left no final.mp4.
C13_AssemblyFailed(j) == calls[j].assemble = 1 /\ response[j].kind # "video/mp4"

\* final.mp4 exists and is not empty (as long as the directory stands).
C13_FinalExists(j) ==
    /\ calls[j].assemble = 1
    /\ pc[j] = "finally" => NonEmpty(files[job_id[j]][<<"final.mp4", 0>>])

C13_VideoOnlyIfFinal(j) ==
    /\ response[j].kind = "video/mp4" <=> response[j].status = 200
    /\ response[j].status = 200 => C13_FinalExists(j)

(***************************************************************************)
(* C13.  As stated: missing or invalid audio or clip sources give a 4xx;   *)
(* a failed download, a probe failure, all clips failed and a failed       *)
(* concat/mux each give a 5xx; a 2xx video/mp4 response is given only when *)
(* the final file exists and is not empty.                                 *)
(***************************************************************************)
C13_Taxonomy ==
    \A j \in Jobs :
        C13_Decided(j) =>
            /\ C13_AudioMissing(j) => C12_Class(response[j]) = 4
            /\ C13_AudioInvalid(j) => C12_Class(response[j]) = 4
            /\ C13_ClipsMissing(j) => C12_Class(response[j]) = 4
            /\ C13_AudioFetchFailed(j) => C12_Class(response[j]) = 5
            /\ C13_ProbeFailed(j) => C12_Class(response[j]) = 5
            /\ C13_DownloadAborted(j) => C12_Class(response[j]) = 5
            /\ C13_AllDownloadsFailed(j) => C12_Class(response[j]) = 5
            /\ C13_AllNormalizationsFailed(j) => C12_Class(response[j]) = 5
            /\ C13_AssemblyFailed(j) => C12_Class(response[j]) = 5
            /\ C13_VideoOnlyIfFinal(j)

(***************************************************************************)
(* C13, amended.  The statuses the handlers give: 400 for a request with   *)
(* no audio source or no clip URL, for a probe that prints nothing, and    *)
(* for /assemble-upload when every clip download failed; 500 for invalid   *)
(* base64 audio, a failed audio download, a probe output that is no        *)
(* number, a failed clip download on /assemble, all normalizations failed  *)
(* and a final run that left no file; 200 video/mp4 only when final.mp4    *)
(* exists and is not empty.  No other status is given.                     *)
(***************************************************************************)
C13_StatusTable ==
    \A j \in Jobs :
        C13_Decided(j) =>
            /\ response[j].status \in {200, 400, 500}
            /\ C13_AudioMissing(j) => response[j].status = 400
            /\ C13_ClipsMissing(j) => response[j].status = 400
            /\ C13_ProbeFailed(j) =>
                  /\ response[j].status \in {400, 500}
                  /\ response[j].status = 400 <=>
                        response[j].error = "Failed to determine audio duration"
                  /\ (pc[j] = "finally" /\ FileAt(j, audio_path(j)).kind # "media") =>
                        response[j].status = 400
            /\ (req[j].endpoint = "upload" /\ C13_AllDownloadsFailed(j)) =>
                  response[j].status = 400
            /\ C13_AudioInvalid(j) => response[j].status = 500
            /\ C13_AudioFetchFailed(j) => response[j].status = 500
            /\ C13_DownloadAborted(j) => response[j].status = 500
            /\ C13_AllNormalizationsFailed(j) => response[j].status = 500
            /\ C13_AssemblyFailed(j) => response[j].status = 500
            /\ C13_VideoOnlyIfFinal(j)

\* A probe failure answered with 400.
C13_Witness ==
    \E j \in Jobs :
        /\ Returned(j)
        /\ C13_ProbeFailed(j)
        /\ response[j].status = 400
        /\ response[j].detail = 600

(***************************************************************************)
(* C14.  The stages of a job, by the handler's position: Created (the      *)
(* audio step), AudioAcquired (the probe), DurationKnown (the clip URLs    *)
(* and the download loop), the normalize loop, ClipsProcessed and          *)
(* Concatenated (concat.txt written, the final run pending), Muxed and     *)
(* Done (final.mp4 accepted, the video returned).  Failed is a decided     *)
(* response other than the video.                                          *)
(***************************************************************************)
C14_Rank(p) ==
    CASE p = "idle" -> 0
      [] p = "audio" -> 1
      [] p = "probe" -> 2
      [] p = "urls" -> 3
      [] p = "download" -> 4
      [] p = "normalize" -> 5
      [] p = "assemble" -> 6
      [] p = "finally" -> 7
      [] OTHER -> 8

C14_Failed(j) == response[j] # NoResponse /\ response[j] # SendFile

C14_Done(j) == response[j] = SendFile

\* What has succeeded when job j stands at a stage.
C14_PredecessorsSucceeded(j) ==
    /\ C14_Rank(pc[j]) \in 2..6 =>
          /\ branch[j] \in {"url", "base64", "upload"}
          /\ FileAt(j, audio_path(j)).owner = j
          /\ response[j] = NoResponse
    /\ C14_Rank(pc[j]) \in 3..6 => calls[j].probe = 1 /\ audio_duration[j] \in Durations
    /\ C14_Rank(pc[j]) \in 5..6 =>
          /\ video_paths[j] # <<>>
          /\ time_per_clip[j] = <<audio_duration[j], Len(video_paths[j])>>
    /\ C14_Rank(pc[j]) = 6 =>
          /\ normalized[j] # <<>>
          /\ concat_list[j] = normalized[j]
          /\ Len(targets[j]) = Len(video_paths[j])
    /\ C14_Done(j) =>
          /\ calls[j].assemble = 1
          /\ concat_list[j] # <<>>
          /\ pc[j] \in {"finally", "returned"}
    /\ C14_Failed(j) => pc[j] \in {"finally", "returned"}

\* One step of job j keeps the order of the stages.
C14_InOrder(j) ==
    /\ pc'[j] # pc[j] =>
          \/ C14_Rank(pc'[j]) = C14_Rank(pc[j]) + 1
          \/ pc'[j] = "finally" /\ C14_Rank(pc[j]) \in 1..6
    \* each tool runs in its own stage only
    /\ calls'[j].probe # calls[j].probe => pc[j] = "probe"
    /\ calls'[j].download # calls[j].download => pc[j] \in {"audio", "download"}
    /\ calls'[j].normalize # calls[j].normalize => pc[j] = "normalize"
    /\ calls'[j].assemble # calls[j].assemble => pc[j] = "assemble"
    /\ video_paths'[j] # video_paths[j] => pc[j] = "download"
    \* and once: no second probe, no second final run
    /\ calls'[j].probe <= 1
    /\ calls'[j].assemble <= 1

\* A decided job only tears its directory down.
C14_Absorbing(j) ==
    (C14_Failed(j) \/ C14_Done(j)) =>
        /\ response'[j] = response[j]
        /\ calls'[j] = calls[j]
        /\ video_paths'[j] = video_paths[j]
        /\ normalized'[j] = normalized[j]
        /\ pc'[j] \in {pc[j], "returned"}

\* C14: the stages of a job occur only in their order, none before its
\* predecessor succeeded and none twice; a failed job stays failed and no
\* download, probe, normalize or final run is made for it any more.
C14_StageOrder ==
    /\ [](\A j \in Jobs : C14_PredecessorsSucceeded(j))
    /\ [][\A j \in Jobs : C14_InOrder(j) /\ C14_Absorbing(j)]_vars

\* A job that passed every stage and failed at the last, with a clip whose
\* normalization failed and was not fetched again.
C14_Witness ==
    \E j \in Jobs :
        /\ Returned(j)
        /\ C14_Failed(j)
        /\ calls[j].assemble = 1
        /\ NormFailed(j) # {}
        /\ calls[j].download = Len(video_paths[j])
                               + (IF branch[j] = "url" THEN 1 ELSE 0)

(***************************************************************************)
(* C15.  If ffprobe yields no readable duration for the acquired audio     *)
(* (it prints nothing, or text that is no number), the job fails at that   *)
(* point: the duration is never taken to be 0 for the rest of the          *)
(* pipeline, and no clip is fetched or normalized for the job.             *)
(***************************************************************************)
\* The probe ran and left no duration.
C15_Unreadable(j) == calls[j].probe >= 1 /\ audio_duration[j] \notin Durations

\* Anything done for the clips of job j.
C15_ClipWork(j) ==
    \/ C11_Attempted(j) # {}
    \/ lastFetch[j].target >= 0
    \/ calls[j].normalize > 0
    \/ calls[j].assemble > 0
    \/ targets[j] # <<>>
    \/ time_per_clip[j] # <<0, 0>>

C15_ProbeFailureIsFatal ==
    \A j \in Jobs :
        /\ C15_Unreadable(j) =>
              /\ pc[j] \in {"finally", "returned"}
              /\ C14_Failed(j)
              /\ response[j].error \in {"Failed to determine audio duration", "exception"}
              /\ ~C15_ClipWork(j)
              /\ calls[j].download = (IF branch[j] = "url" THEN 1 ELSE 0)
        /\ C14_Rank(pc[j]) \in 3..6 => audio_duration[j] \in Durations
        /\ C15_ClipWork(j) => audio_duration[j] \in Durations
        /\ \A p \in DOMAIN targets[j] : targets[j][p][1] > 0

\* A probe that printed text that is no number: the job ended with the
\* handler's exception response.
C15_Witness ==
    \E j \in Jobs :
        /\ Returned(j)
        /\ C15_Unreadable(j)
        /\ response[j] = ExceptionResponse
        /\ calls[j].write = 1

(***************************************************************************)
(* C16.  As stated: clips are handled one at a time, fetch then normalize  *)
(* then delete-raw, so the directory of a job never holds more than one    *)
(* raw clip file, and a clip whose normalization was attempted has no raw  *)
(* file any more.                                                          *)
(***************************************************************************)
\* The raw clip files in the directory of job j.
C16_RawClips(j) ==
    IF job_id[j] \in dirs
    THEN {k \in ClipIdx : files[job_id[j]][<<"clip", k>>].kind # "absent"}
    ELSE {}

\* The clips whose normalize run has been made.
C16_Attempted(j) == {video_paths[j][p] : p \in 1..Len(targets[j])}

C16_OneRawClipAtATime ==
    \A j \in Jobs :
        InFlight(j) =>
            /\ Cardinality(C16_RawClips(j)) <= 1
            /\ C16_RawClips(j) \cap C16_Attempted(j) = {}

(***************************************************************************)
(* C16, amended.  All capped clips are downloaded first, then normalized   *)
(* one after the other; no raw file is deleted before the teardown of the  *)
(* directory: until then the directory holds the raw file of every clip    *)
(* downloaded so far (up to the cap: 3 or 5 at once), also of the clips    *)
(* whose normalization was attempted.                                      *)
(***************************************************************************)
C16_RawClipsKeptUntilTeardown ==
    \A j \in Jobs :
        InFlight(j) =>
            /\ C16_RawClips(j) = Range(video_paths[j])
            /\ Cardinality(C16_RawClips(j)) = Len(video_paths[j])
            /\ Cardinality(C16_RawClips(j)) <= MaxClips(j)
            /\ C16_Attempted(j) \subseteq C16_RawClips(j)
            \* no normalize run before the download loop has ended
            /\ pc[j] = "download" => calls[j].normalize = 0 /\ targets[j] = <<>>

\* Five raw clips at once, all of them already through the normalize loop.
C16_Witness ==
    \E j \in Jobs :
        /\ pc[j] = "assemble"
        /\ Cardinality(C16_RawClips(j)) = UploadMaxClips
        /\ Cardinality(C16_Attempted(j)) = UploadMaxClips
        /\ NormFailed(j) # {}

(***************************************************************************)
(* C17.  As stated: intermediates are deleted as soon as they are          *)
(* consumed, so once the final run has made the video (and before the      *)
(* teardown of the directory) no normalized clip and no audio file remain  *)
(* and final.mp4 is the only media file in the directory.                  *)
(***************************************************************************)
\* The media files in the directory of job j.
C17_MediaFiles(j) ==
    IF job_id[j] \in dirs
    THEN {n \in FileNames : files[job_id[j]][n].kind = "media"}
    ELSE {}

\* Done, the directory not yet torn down.
C17_DoneBeforeTeardown(j) == pc[j] = "finally" /\ response[j] = SendFile

C17_OnlyFinalLeft ==
    \A j \in Jobs :
        C17_DoneBeforeTeardown(j) =>
            /\ C17_MediaFiles(j) = {<<"final.mp4", 0>>}
            /\ \A p \in Range(concat_list[j]) : <<"norm", p>> \notin C17_MediaFiles(j)
            /\ audio_path(j) \notin C17_MediaFiles(j)

(***************************************************************************)
(* C17, amended.  Nothing is deleted before the teardown: when the video   *)
(* is made, the directory still holds the audio file, every downloaded raw *)
(* clip, every normalized clip, concat.txt and final.mp4; they all go in   *)
(* the one rmtree of the finally block.                                    *)
(***************************************************************************)
C17_IntermediatesKeptUntilTeardown ==
    \A j \in Jobs :
        /\ C17_DoneBeforeTeardown(j) =>
              /\ <<"final.mp4", 0>> \in C17_MediaFiles(j)
              /\ audio_path(j) \in C17_MediaFiles(j)
              /\ \A p \in Range(concat_list[j]) : <<"norm", p>> \in C17_MediaFiles(j)
              /\ concat_list[j] # <<>>
              /\ files[job_id[j]][<<"concat.txt", 0>>].kind = "text"
              /\ C16_RawClips(j) = Range(video_paths[j])
              /\ Cardinality(C17_MediaFiles(j)) >= 3
        \* the normalized clips are still there after concat.txt is written
        /\ pc[j] = "assemble" =>
              \A p \in Range(concat_list[j]) : <<"norm", p>> \in C17_MediaFiles(j)
        /\ (Returned(j) /\ response[j] = SendFile) => C17_MediaFiles(j) = {}

\* A video made from five clips: audio, five raw and five normalized clips
\* and final.mp4 are in the directory together.
C17_Witness ==
    \E j \in Jobs :
        /\ C17_DoneBeforeTeardown(j)
        /\ Len(concat_list[j]) = UploadMaxClips
        /\ Cardinality(C17_MediaFiles(j)) = 2 * UploadMaxClips + 2

(***************************************************************************)
(* C18.  As stated: a download counts as fetched only if it left a         *)
(* non-empty file: a download that ends with an empty body or with an      *)
(* error HTTP status is never taken for the acquired audio or for a        *)
(* fetched clip, is never counted in the divisor of the time per clip and  *)
(* is never handed to the normalize step.                                  *)
(***************************************************************************)
\* A file a successful fetch leaves: not empty, and not the body of an
\* error answer.
C18_Fetched(f) == NonEmpty(f) /\ f.kind # "junk"

\* The last download of job j ended with an empty body or an error status.
C18_LastFetchBad(j) == lastFetch[j].outcome \in {"empty", "http_error"}

C18_FetchNeedsNonEmptyFile ==
    \A j \in Jobs :
        (InFlight(j) /\ job_id[j] \in dirs) =>
            \* the audio, once the handler is past the audio step
            /\ (C14_Rank(pc[j]) \in 2..6 /\ branch[j] = "url") =>
                  C18_Fetched(FileAt(j, audio_path(j)))
            \* the clips taken as fetched, counted and normalized
            /\ \A k \in Range(video_paths[j]) : C18_Fetched(FileAt(j, <<"clip", k>>))
            /\ (C18_LastFetchBad(j) /\ lastFetch[j].target >= 0) =>
                  lastFetch[j].target \notin Range(video_paths[j])
            /\ time_per_clip[j] # <<0, 0>> =>
                  time_per_clip[j][2] =
                      Cardinality({k \in ClipIdx : C18_Fetched(FileAt(j, <<"clip", k>>))})

(***************************************************************************)
(* C19.  As stated: every error response with a detail field carries at    *)
(* most the last 500 characters of the tool's error output, never the      *)
(* whole of it, for a probe failure as for a failed final run.             *)
(***************************************************************************)
\* The response of job j has a detail field.
C19_HasDetail(j) == response[j].kind = "json" /\ response[j].detail # -1

C19_DetailTruncated ==
    \A j \in Jobs :
        C19_HasDetail(j) =>
            /\ response[j].detail <= DetailTail
            /\ response[j].error \in
                  {"Failed to determine audio duration", "Final video not created"}

(***************************************************************************)
(* C20.  On both endpoints the time per clip is computed only when the     *)
(* list of downloaded clips is not empty: wherever the division            *)
(* audio_duration / len(video_paths) is made the divisor is at least 1,    *)
(* also for an empty, missing or all-failing list of clip URLs, so no job  *)
(* fails through a division by zero.                                       *)
(***************************************************************************)
\* The division has been made for job j.
C20_Divided(j) == time_per_clip[j] # <<0, 0>>

\* The handler is past the check on the downloaded clips without a clip.
C20_NoClipsAnswer(j) ==
    response[j] \in {Json(400, "No video clips provided", -1),
                     Json(400, "Failed to download any video clips", -1)}

C20_DivisorAtLeastOne ==
    \A j \in Jobs :
        /\ C20_Divided(j) =>
              /\ time_per_clip[j][2] >= 1
              /\ time_per_clip[j][2] = Len(video_paths[j])
        /\ C14_Rank(pc[j]) \in 5..6 => C20_Divided(j)
        /\ \A p \in DOMAIN targets[j] : targets[j][p][2] >= 1
        \* without a downloaded clip the loop's end gives the 400 and no
        \* division; the exception response is never one of a division
        /\ (C13_Decided(j) /\ video_paths[j] = <<>>) => ~C20_Divided(j)
        /\ (C13_Decided(j) /\ video_paths[j] = <<>> /\ audio_duration[j] \in Durations
              /\ fetch_failed[j] = {} /\ req[j].endpoint = "assemble") =>
              C20_NoClipsAnswer(j)
        /\ (C13_Decided(j) /\ req[j].endpoint = "upload" /\ C13_AllDownloadsFailed(j)) =>
              C20_NoClipsAnswer(j)

\* Five URLs on /assemble-upload, every download failed: 400, no division.
C20_Witness ==
    \E j \in Jobs :
        /\ Returned(j)
        /\ Cardinality(fetch_failed[j]) = UploadMaxClips
        /\ video_paths[j] = <<>>
        /\ C20_NoClipsAnswer(j)
        /\ ~C20_Divided(j)

=============================================================================
